---- MODULE Spec2Model ----
(***************************************************************************)
(* Model of todo.py, a single-file JSON-backed to-do list.                 *)
(*                                                                         *)
(* Python strings are sequences of one-character strings, so that strip,   *)
(* join, lower, startswith, substring search and the lexicographic string  *)
(* comparison used by the sort keys are computed the way the code computes *)
(* them.  An Optional value is a sequence of length at most one: <<>> is   *)
(* None and <<v>> is the value v.                                          *)
(***************************************************************************)
EXTENDS Integers, Sequences, FiniteSets, TLC

VARIABLES file, now, last, prevDone, listed, pc, mem, order, overlap

vars == <<file, now, last, prevDone, listed, pc, mem, order, overlap>>

(***************************************************************************)
(* Bounds of the model.                                                    *)
(***************************************************************************)
MaxTasks == 2
MaxClock == 2
MaxListLen == 2

None == <<>>
Some(v) == <<v>>

(***************************************************************************)
(* Strings.                                                                *)
(***************************************************************************)
EmptyStr == <<>>

\* Code points of the characters the model's strings are made of.
Ord(c) ==
    CASE c = " " -> 32
      [] c = "-" -> 45
      [] c = "0" -> 48
      [] c = "1" -> 49
      [] c = "2" -> 50
      [] c = "3" -> 51
      [] c = "4" -> 52
      [] c = "5" -> 53
      [] c = "6" -> 54
      [] c = "7" -> 55
      [] c = "8" -> 56
      [] c = "9" -> 57
      [] c = "A" -> 65
      [] c = "B" -> 66
      [] c = "H" -> 72
      [] c = "T" -> 84
      [] c = "U" -> 85
      [] c = "X" -> 88
      [] OTHER -> 97 + (CHOOSE k \in 0..25 :
                          c = <<"a","b","c","d","e","f","g","h","i","j","k","l","m",
                                "n","o","p","q","r","s","t","u","v","w","x","y","z">>[k + 1])

\* str.lower() on one character
LowerChar(c) ==
    IF Ord(c) >= 65 /\ Ord(c) <= 90
    THEN <<"a","b","c","d","e","f","g","h","i","j","k","l","m",
           "n","o","p","q","r","s","t","u","v","w","x","y","z">>[Ord(c) - 64]
    ELSE c

Lower(s) == [i \in 1..Len(s) |-> LowerChar(s[i])]

RECURSIVE LStrip(_)
LStrip(s) == IF s # <<>> /\ Head(s) = " " THEN LStrip(Tail(s)) ELSE s

RECURSIVE RStrip(_)
RStrip(s) == IF s # <<>> /\ s[Len(s)] = " " THEN RStrip(SubSeq(s, 1, Len(s) - 1)) ELSE s

\* str.strip()
Strip(s) == RStrip(LStrip(s))

\* " ".join(parts)
RECURSIVE Join(_)
Join(parts) ==
    IF parts = <<>> THEN <<>>
    ELSE IF Len(parts) = 1 THEN parts[1]
    ELSE parts[1] \o <<" ">> \o Join(Tail(parts))

\* s.startswith(p)
StartsWith(s, p) == Len(p) <= Len(s) /\ SubSeq(s, 1, Len(p)) = p

\* sub in s
Contains(s, sub) ==
    \E i \in 1..(Len(s) - Len(sub) + 1) : SubSeq(s, i, i + Len(sub) - 1) = sub

\* a < b on Python strings: lexicographic by code point
RECURSIVE StrLess(_, _)
StrLess(a, b) ==
    IF b = <<>> THEN FALSE
    ELSE IF a = <<>> THEN TRUE
    ELSE IF Ord(Head(a)) # Ord(Head(b)) THEN Ord(Head(a)) < Ord(Head(b))
    ELSE StrLess(Tail(a), Tail(b))

(***************************************************************************)
(* Calendar dates: <<year, month, day>>.                                   *)
(***************************************************************************)
IsDigit(c) == Ord(c) >= 48 /\ Ord(c) <= 57
DigitVal(c) == Ord(c) - 48
DigitChar(n) == <<"0","1","2","3","4","5","6","7","8","9">>[n + 1]

IsLeap(y) == (y % 4 = 0 /\ y % 100 # 0) \/ y % 400 = 0

DaysIn(y, m) ==
    IF m = 2 THEN (IF IsLeap(y) THEN 29 ELSE 28)
    ELSE IF m \in {4, 6, 9, 11} THEN 30 ELSE 31

\* datetime.date.fromisoformat(s): <<>> stands for ValueError
FromIso(s) ==
    IF Len(s) = 10 /\ s[5] = "-" /\ s[8] = "-"
       /\ \A i \in {1, 2, 3, 4, 6, 7, 9, 10} : IsDigit(s[i])
    THEN LET y == 1000 * DigitVal(s[1]) + 100 * DigitVal(s[2])
                  + 10 * DigitVal(s[3]) + DigitVal(s[4])
             m == 10 * DigitVal(s[6]) + DigitVal(s[7])
             d == 10 * DigitVal(s[9]) + DigitVal(s[10])
         IN IF y >= 1 /\ m >= 1 /\ m <= 12 /\ d >= 1 /\ d <= DaysIn(y, m)
            THEN <<y, m, d>> ELSE <<>>
    ELSE <<>>

\* date.isoformat()
IsoFormat(d) ==
    << DigitChar(d[1] \div 1000), DigitChar((d[1] \div 100) % 10),
       DigitChar((d[1] \div 10) % 10), DigitChar(d[1] % 10), "-",
       DigitChar(d[2] \div 10), DigitChar(d[2] % 10), "-",
       DigitChar(d[3] \div 10), DigitChar(d[3] % 10) >>

\* date + timedelta(days=1)
NextDay(d) ==
    IF d[3] < DaysIn(d[1], d[2]) THEN <<d[1], d[2], d[3] + 1>>
    ELSE IF d[2] < 12 THEN <<d[1], d[2] + 1, 1>>
    ELSE <<d[1] + 1, 1, 1>>

\* date < date
DateLess(a, b) ==
    \/ a[1] < b[1]
    \/ a[1] = b[1] /\ a[2] < b[2]
    \/ a[1] = b[1] /\ a[2] = b[2] /\ a[3] < b[3]

(***************************************************************************)
(* String literals of the program.                                         *)
(***************************************************************************)
sHigh == <<"h", "i", "g", "h">>
sNormal == <<"n", "o", "r", "m", "a", "l">>
sLow == <<"l", "o", "w">>
sToday == <<"t", "o", "d", "a", "y">>
sTomorrow == <<"t", "o", "m", "o", "r", "r", "o", "w">>
sUntitled == <<"U", "n", "t", "i", "t", "l", "e", "d">>
sSentinel == <<"9", "9", "9", "9", "-", "9", "9", "-", "9", "9">>

PRIORITIES == {sHigh, sNormal, sLow}

(***************************************************************************)
(* Helpers of todo.py.                                                     *)
(***************************************************************************)
\* parse_date: ok = FALSE is the sys.exit of the except branch
parse_date(s, today) ==
    IF s = None \/ s[1] = EmptyStr THEN [ok |-> TRUE, val |-> None]
    ELSE IF Lower(s[1]) = sToday THEN [ok |-> TRUE, val |-> Some(IsoFormat(today))]
    ELSE IF Lower(s[1]) = sTomorrow
         THEN [ok |-> TRUE, val |-> Some(IsoFormat(NextDay(today)))]
    ELSE IF FromIso(s[1]) = <<>> THEN [ok |-> FALSE, val |-> None]
    ELSE [ok |-> TRUE, val |-> Some(IsoFormat(FromIso(s[1])))]

\* The store file: absent, unparseable text, JSON that is not an array, or a
\* JSON array of task records.
FileOf(items) == [kind |-> "list", items |-> items]

load(f) ==
    IF f.kind = "absent" THEN [err |-> "", items |-> <<>>]
    ELSE IF f.kind = "garbage" THEN [err |-> "CorruptStore", items |-> <<>>]
    ELSE IF f.kind = "list" THEN [err |-> "", items |-> f.items]
    ELSE [err |-> "", items |-> <<>>]

save(items) == FileOf(items)

\* short_id: the first IdLen hex digits of a random uuid4.  Any string of
\* IdLen hex digits may come out, whatever ids the collection holds; the
\* model draws from two of them, which share their first digit.
IdLen == 8
IdFrom(prefix) == prefix \o [i \in 1..(IdLen - Len(prefix)) |-> "0"]
ShortIds == {IdFrom(<<"a", "a">>), IdFrom(<<"a", "b">>)}

\* find: the index of the first task whose id starts with tid, 0 for None
find(items, tid) ==
    IF \E i \in 1..Len(items) : StartsWith(items[i].id, tid)
    THEN CHOOSE i \in 1..Len(items) :
            /\ StartsWith(items[i].id, tid)
            /\ \A j \in 1..(i - 1) : ~StartsWith(items[j].id, tid)
    ELSE 0

pri_rank(p) ==
    IF p = sHigh THEN 0 ELSE IF p = sNormal THEN 1 ELSE IF p = sLow THEN 2 ELSE 1

\* is_overdue raises ValueError on a due string that is no ISO date
overdue_raises(due, completed) ==
    due # None /\ due[1] # EmptyStr /\ ~completed /\ FromIso(due[1]) = <<>>

is_overdue(due, completed, today) ==
    IF due = None \/ due[1] = EmptyStr \/ completed THEN FALSE
    ELSE DateLess(FromIso(due[1]), today)

(***************************************************************************)
(* Commands.  Each takes the store file and the arguments and returns the  *)
(* outcome: err ("" on success, else the kind of the exit), the store file *)
(* afterwards, and the index the id argument resolved to (0 if none).      *)
(***************************************************************************)
Exit(e, f) == [err |-> e, file |-> f, idx |-> 0]
Saved(items, i) == [err |-> "", file |-> save(items), idx |-> i]

NewTask(id, title, p, due, ts) ==
    [id |-> id, title |-> title, priority |-> p, due |-> due,
     completed |-> FALSE, created_at |-> ts, completed_at |-> None]

\* lines 71-88, on the loaded items
add_items(items, a, id, ts, today) ==
    LET title == Strip(Join(a.title))
        p == Lower(a.priority)
        due == parse_date(a.due, today)
    IN IF title = EmptyStr THEN [err |-> "ValidationError", items |-> items]
       ELSE IF p \notin PRIORITIES THEN [err |-> "ValidationError", items |-> items]
       ELSE IF ~due.ok THEN [err |-> "ValidationError", items |-> items]
       ELSE [err |-> "", items |-> Append(items, NewTask(id, title, p, due.val, ts))]

\* Mutant of add_outcome: the task is appended to what the file holds when
\* it is written, as if load and save were one transaction.
add_outcome_reload(f, items, a, id, ts, today) ==
    LET r == add_items(load(f).items, a, id, ts, today) IN
    IF r.err # "" THEN Exit(r.err, f) ELSE Saved(r.items, Len(r.items))

\* lines 71-88 with the exits and the save: items is what line 70 loaded,
\* f the store file at the time of the save
add_outcome(f, items, a, id, ts, today) ==
    LET r == add_items(items, a, id, ts, today) IN
    IF r.err # "" THEN Exit(r.err, f) ELSE Saved(r.items, Len(r.items))

cmd_add(f, a, id, ts, today) ==
    LET ld == load(f) IN
    IF ld.err # "" THEN Exit(ld.err, f)
    ELSE add_outcome(f, ld.items, a, id, ts, today)

\* Mutant of cmd_done: every task the prefix matches is completed, not the
\* first one only.
cmd_done_every_match(f, tid, ts) ==
    LET ld == load(f) IN
    IF ld.err # "" THEN Exit(ld.err, f)
    ELSE LET i == find(ld.items, tid) IN
         IF i = 0 THEN Exit("TaskNotFound", f)
         ELSE Saved([k \in 1..Len(ld.items) |->
                        IF StartsWith(ld.items[k].id, tid)
                        THEN [ld.items[k] EXCEPT !.completed = TRUE,
                                                 !.completed_at = Some(ts)]
                        ELSE ld.items[k]], i)

cmd_done(f, tid, ts) ==
    LET ld == load(f) IN
    IF ld.err # "" THEN Exit(ld.err, f)
    ELSE LET i == find(ld.items, tid) IN
         IF i = 0 THEN Exit("TaskNotFound", f)
         ELSE Saved([ld.items EXCEPT ![i].completed = TRUE,
                                     ![i].completed_at = Some(ts)], i)

\* Mutant of cmd_undo: completed_at is left as it was.
cmd_undo_keeps_stamp(f, tid) ==
    LET ld == load(f) IN
    IF ld.err # "" THEN Exit(ld.err, f)
    ELSE LET i == find(ld.items, tid) IN
         IF i = 0 THEN Exit("TaskNotFound", f)
         ELSE Saved([ld.items EXCEPT ![i].completed = FALSE], i)

cmd_undo(f, tid) ==
    LET ld == load(f) IN
    IF ld.err # "" THEN Exit(ld.err, f)
    ELSE LET i == find(ld.items, tid) IN
         IF i = 0 THEN Exit("TaskNotFound", f)
         ELSE Saved([ld.items EXCEPT ![i].completed = FALSE,
                                     ![i].completed_at = None], i)

\* [x for x in items if x["id"] != tid]
RECURSIVE without_id(_, _)
without_id(items, id) ==
    IF items = <<>> THEN <<>>
    ELSE IF Head(items).id # id THEN <<Head(items)>> \o without_id(Tail(items), id)
    ELSE without_id(Tail(items), id)

cmd_delete(f, tid) ==
    LET ld == load(f) IN
    IF ld.err # "" THEN Exit(ld.err, f)
    ELSE LET i == find(ld.items, tid) IN
         IF i = 0 THEN Exit("TaskNotFound", f)
         ELSE Saved(without_id(ld.items, ld.items[i].id), i)

\* Mutant of cmd_edit: the new title is saved before the priority and the
\* due date are validated.
cmd_edit_saves_title_first(f, tid, a, today) ==
    LET ld == load(f) IN
    IF ld.err # "" THEN Exit(ld.err, f)
    ELSE LET i == find(ld.items, tid) IN
    IF i = 0 THEN Exit("TaskNotFound", f)
    ELSE LET t0 == ld.items[i]
             t1 == IF a.title # None /\ a.title[1] # <<>>
                   THEN [t0 EXCEPT !.title = Strip(Join(a.title[1]))] ELSE t0
             f1 == save([ld.items EXCEPT ![i] = t1])
             pGiven == a.priority # None /\ a.priority[1] # EmptyStr
             p == IF pGiven THEN Lower(a.priority[1]) ELSE EmptyStr
             t2 == IF pGiven THEN [t1 EXCEPT !.priority = p] ELSE t1
             due == IF a.due # None THEN parse_date(a.due, today)
                    ELSE [ok |-> TRUE, val |-> None]
             t3 == IF a.due # None THEN [t2 EXCEPT !.due = due.val] ELSE t2
             t4 == IF a.clear_due THEN [t3 EXCEPT !.due = None] ELSE t3
         IN IF pGiven /\ p \notin PRIORITIES THEN [Exit("ValidationError", f1) EXCEPT !.idx = i]
            ELSE IF ~due.ok THEN [Exit("ValidationError", f1) EXCEPT !.idx = i]
            ELSE Saved([ld.items EXCEPT ![i] = t4], i)

\* cmd_edit: a.title is None or Some(list of words), a.priority and a.due are
\* None or Some(string), a.clear_due is the --clear-due flag.
cmd_edit(f, tid, a, today) ==
    LET ld == load(f) IN
    IF ld.err # "" THEN Exit(ld.err, f)
    ELSE LET i == find(ld.items, tid) IN
    IF i = 0 THEN Exit("TaskNotFound", f)
    ELSE LET t0 == ld.items[i]
             t1 == IF a.title # None /\ a.title[1] # <<>>
                   THEN [t0 EXCEPT !.title = Strip(Join(a.title[1]))] ELSE t0
             pGiven == a.priority # None /\ a.priority[1] # EmptyStr
             p == IF pGiven THEN Lower(a.priority[1]) ELSE EmptyStr
             t2 == IF pGiven THEN [t1 EXCEPT !.priority = p] ELSE t1
             due == IF a.due # None THEN parse_date(a.due, today)
                    ELSE [ok |-> TRUE, val |-> None]
             t3 == IF a.due # None THEN [t2 EXCEPT !.due = due.val] ELSE t2
             t4 == IF a.clear_due THEN [t3 EXCEPT !.due = None] ELSE t3
         IN IF pGiven /\ p \notin PRIORITIES THEN [Exit("ValidationError", f) EXCEPT !.idx = i]
            ELSE IF ~due.ok THEN [Exit("ValidationError", f) EXCEPT !.idx = i]
            ELSE Saved([ld.items EXCEPT ![i] = t4], i)

RECURSIVE not_completed(_)
not_completed(items) ==
    IF items = <<>> THEN <<>>
    ELSE IF ~Head(items).completed THEN <<Head(items)>> \o not_completed(Tail(items))
    ELSE not_completed(Tail(items))

cmd_clear_completed(f) ==
    LET ld == load(f) IN
    IF ld.err # "" THEN Exit(ld.err, f)
    ELSE Saved(not_completed(ld.items), 0)

\* One imported record: t is a JSON object, a function whose domain is the
\* keys it has.
Get(t, k, default) == IF k \in DOMAIN t THEN t[k] ELSE default

import_task(t, id, ts) ==
    [id |-> id,
     title |-> Get(t, "title", sUntitled),
     priority |-> IF Get(t, "priority", EmptyStr) \in PRIORITIES
                  THEN t["priority"] ELSE sNormal,
     due |-> Get(t, "due", None),
     completed |-> Get(t, "completed", FALSE),
     created_at |-> Get(t, "created_at", ts),
     completed_at |-> Get(t, "completed_at", None)]

\* The import file: missing, unparseable, JSON that is no array, or an array.
cmd_import(f, imp, ids, ts) ==
    IF imp.kind = "missing" THEN Exit("ImportFileNotFound", f)
    ELSE IF imp.kind = "garbage" THEN Exit("JSONDecodeError", f)
    ELSE IF imp.kind # "list" THEN Exit("InvalidImportFormat", f)
    ELSE LET ld == load(f) IN
         IF ld.err # "" THEN Exit(ld.err, f)
         ELSE Saved(ld.items \o [k \in 1..Len(imp.data) |->
                                    import_task(imp.data[k], ids[k], ts)], 0)

(***************************************************************************)
(* The query engine.                                                       *)
(***************************************************************************)
\* Mutant of due_key: the sentinel of a missing due date sorts first.
due_key_sentinel_low(t) ==
    IF t.due = None \/ t.due[1] = EmptyStr
    THEN <<"0", "0", "0", "0", "-", "0", "0", "-", "0", "0">> ELSE t.due[1]

\* t.get("due") or "9999-99-99"
due_key(t) == IF t.due = None \/ t.due[1] = EmptyStr THEN sSentinel ELSE t.due[1]

\* key(a) < key(b) for the key tuple of each sort mode; "created" sorts with
\* reverse=True, so a goes first when its created_at is larger.
key_less(sort_key, a, b) ==
    IF sort_key = "priority" THEN
        \/ pri_rank(a.priority) < pri_rank(b.priority)
        \/ /\ pri_rank(a.priority) = pri_rank(b.priority)
           /\ \/ StrLess(due_key(a), due_key(b))
              \/ due_key(a) = due_key(b) /\ -a.created_at < -b.created_at
    ELSE IF sort_key = "due" THEN
        \/ StrLess(due_key(a), due_key(b))
        \/ /\ due_key(a) = due_key(b)
           /\ \/ pri_rank(a.priority) < pri_rank(b.priority)
              \/ /\ pri_rank(a.priority) = pri_rank(b.priority)
                 /\ -a.created_at < -b.created_at
    ELSE a.created_at > b.created_at

\* sorted(): stable, so x goes before the first element it is smaller than
insert_sorted(acc, x, sort_key) ==
    IF \E i \in 1..Len(acc) : key_less(sort_key, x, acc[i])
    THEN LET i == CHOOSE k \in 1..Len(acc) :
                     /\ key_less(sort_key, x, acc[k])
                     /\ \A j \in 1..(k - 1) : ~key_less(sort_key, x, acc[j])
         IN SubSeq(acc, 1, i - 1) \o <<x>> \o SubSeq(acc, i, Len(acc))
    ELSE Append(acc, x)

RECURSIVE sorted_from(_, _, _)
sorted_from(acc, items, sort_key) ==
    IF items = <<>> THEN acc
    ELSE sorted_from(insert_sorted(acc, Head(items), sort_key), Tail(items), sort_key)

sorted(items, sort_key) == sorted_from(<<>>, items, sort_key)

Reverse(s) == [i \in 1..Len(s) |-> s[Len(s) + 1 - i]]

RECURSIVE keep_show(_, _)
keep_show(items, show) ==
    IF items = <<>> THEN <<>>
    ELSE IF \/ show = "active" /\ Head(items).completed
            \/ show = "completed" /\ ~Head(items).completed
         THEN keep_show(Tail(items), show)
         ELSE <<Head(items)>> \o keep_show(Tail(items), show)

RECURSIVE keep_query(_, _)
keep_query(items, q) ==
    IF items = <<>> THEN <<>>
    ELSE IF q = EmptyStr \/ Contains(Lower(Head(items).title), Lower(q))
         THEN <<Head(items)>> \o keep_query(Tail(items), q)
         ELSE keep_query(Tail(items), q)

RECURSIVE keep_overdue(_, _)
keep_overdue(items, today) ==
    IF items = <<>> THEN <<>>
    ELSE IF is_overdue(Head(items).due, Head(items).completed, today)
         THEN <<Head(items)>> \o keep_overdue(Tail(items), today)
         ELSE keep_overdue(Tail(items), today)

any_raises(items) ==
    \E i \in 1..Len(items) : overdue_raises(items[i].due, items[i].completed)

\* filtered_sorted: err is "ValueError" when is_overdue raises on a due string
filtered_sorted(items, show, q, sort_key, reverse, overdue_only, today) ==
    LET shown == keep_show(items, show)
        asked == keep_query(shown, q)
    IN IF overdue_only /\ any_raises(asked) THEN [err |-> "ValueError", items |-> <<>>]
       ELSE LET kept == IF overdue_only THEN keep_overdue(asked, today) ELSE asked
                srt == sorted(kept, sort_key)
            IN [err |-> "", items |-> IF reverse THEN Reverse(srt) ELSE srt]

\* cmd_list: the rows printed, in order; the status column calls is_overdue
cmd_list(f, a, today) ==
    LET ld == load(f) IN
    IF ld.err # "" THEN [err |-> ld.err, items |-> <<>>]
    ELSE LET r == filtered_sorted(ld.items, a.show, a.query, a.sort, a.reverse,
                                  a.overdue, today)
         IN IF r.err = "" /\ any_raises(r.items)
            THEN [err |-> "ValueError", items |-> <<>>] ELSE r

(***************************************************************************)
(* Inputs: the command lines and import files the model tries.             *)
(***************************************************************************)
Today == <<2024, 1, 10>>

sBadDate == <<"2", "0", "2", "4", "-", "0", "2", "-", "3", "0">>
sUrgent == <<"u", "r", "g", "e", "n", "t">>

NoEdit == [title |-> None, priority |-> None, due |-> None, clear_due |-> FALSE]

\* id arguments: a prefix of both ids, one of each, and one of neither
TidArgs == {<<"a">>, <<"a", "a">>, <<"a", "b">>, <<"b">>}

\* Command lines of a store that no import file reaches: every import file
\* tried is missing, unparseable or not an array.
LocalInputs ==
    [add |-> [title : {<< <<" ">> >>, << <<" ">>, <<"a">> >>},
              priority : {<<"H", "i", "g", "h">>, sUrgent},
              due : {None, Some(<<"T", "o", "d", "a", "y">>), Some(sBadDate)}],
     edit |-> {NoEdit,
               [NoEdit EXCEPT !.title = Some(<< <<" ">> >>)],
               [NoEdit EXCEPT !.title = Some(<< <<"b">> >>), !.priority = Some(sUrgent)],
               [NoEdit EXCEPT !.title = Some(<< <<"b">> >>), !.due = Some(sBadDate)],
               [NoEdit EXCEPT !.priority = Some(sHigh), !.due = Some(IsoFormat(Today))],
               [NoEdit EXCEPT !.due = Some(EmptyStr)],
               [NoEdit EXCEPT !.due = Some(sTomorrow), !.clear_due = TRUE]},
     imports |-> {[kind |-> "missing", data |-> <<>>],
                  [kind |-> "garbage", data |-> <<>>],
                  [kind |-> "object", data |-> <<>>]}]

\* Command lines that import arrays of records as well.
ImportInputs ==
    [add |-> [title : {<< <<"a">> >>},
              priority : {sHigh},
              due : {None, Some(sTomorrow)}],
     edit |-> {[NoEdit EXCEPT !.due = Some(sTomorrow)],
               [NoEdit EXCEPT !.clear_due = TRUE]},
     imports |-> {[kind |-> "missing", data |-> <<>>],
                  [kind |-> "list", data |-> << [title |-> <<"X">>] >>],
                  [kind |-> "list",
                   data |-> << [id |-> IdFrom(<<"a", "a">>), title |-> EmptyStr,
                                priority |-> sUrgent,
                                due |-> Some(<<"b", "a", "d">>),
                                completed |-> TRUE] >>]}]

(***************************************************************************)
(* The state: the store file, the clock, and what the last invocation was  *)
(* and how it ended.  prevDone is set when the last invocation was a       *)
(* successful done or undo that directly followed a successful done: it is *)
(* the index that earlier done resolved to (0 otherwise).                  *)
(***************************************************************************)
NoFile == [kind |-> "absent", items |-> <<>>]
NoCmd == [cmd |-> "", err |-> "", idx |-> 0, dueOmitted |-> FALSE]
NoList == [sort |-> "", reverse |-> FALSE, err |-> "", items |-> <<>>]
Procs == {1, 2}

Idle ==
    /\ listed = NoList
    /\ pc = [p \in Procs |-> "start"]
    /\ mem = [p \in Procs |-> <<>>]
    /\ order = <<>>
    /\ overlap = FALSE

Init ==
    /\ file = NoFile
    /\ now = 1
    /\ last = NoCmd
    /\ prevDone = 0
    /\ Idle

\* One invocation ends: r is its outcome, ts the clock it read.
Complete(cmd, r, ts, flag) ==
    /\ file' = r.file
    /\ now' = ts
    /\ last' = [cmd |-> cmd, err |-> r.err, idx |-> r.idx, dueOmitted |-> flag]
    /\ prevDone' = IF /\ cmd \in {"done", "undo"} /\ r.err = ""
                      /\ last.cmd = "done" /\ last.err = ""
                   THEN last.idx ELSE 0
    /\ UNCHANGED <<listed, pc, mem, order, overlap>>

CmdAdd(args) ==
    \E a \in args, id \in ShortIds, ts \in now..MaxClock :
        /\ Len(load(file).items) < MaxTasks
        /\ Complete("add", cmd_add(file, a, id, ts, Today), ts, FALSE)

CmdDone ==
    \E tid \in TidArgs, ts \in now..MaxClock :
        Complete("done", cmd_done(file, tid, ts), ts, FALSE)

CmdUndo ==
    \E tid \in TidArgs, ts \in now..MaxClock :
        Complete("undo", cmd_undo(file, tid), ts, FALSE)

CmdDelete ==
    \E tid \in TidArgs, ts \in now..MaxClock :
        Complete("delete", cmd_delete(file, tid), ts, FALSE)

CmdEdit(args) ==
    \E tid \in TidArgs, a \in args, ts \in now..MaxClock :
        Complete("edit", cmd_edit(file, tid, a, Today), ts,
                 a.due = Some(EmptyStr) /\ ~a.clear_due)

CmdClearCompleted ==
    \E ts \in now..MaxClock :
        Complete("clear-completed", cmd_clear_completed(file), ts, FALSE)

CmdImport(files) ==
    \E imp \in files, ts \in now..MaxClock :
        \E ids \in [1..Len(imp.data) -> ShortIds] :
            /\ Len(load(file).items) + Len(imp.data) <= MaxTasks
            /\ Complete("import", cmd_import(file, imp, ids, ts), ts, FALSE)

Next(In) ==
    \/ CmdAdd(In.add)
    \/ CmdDone
    \/ CmdUndo
    \/ CmdDelete
    \/ CmdEdit(In.edit)
    \/ CmdClearCompleted
    \/ CmdImport(In.imports)

NextLocal == Next(LocalInputs)
NextImport == Next(ImportInputs)

Spec == Init /\ [][NextLocal]_vars

SpecImport == Init /\ [][NextImport]_vars

\* The same commands, run against whatever the store file may hold at start.
InitStore ==
    /\ file \in {NoFile, [kind |-> "garbage", items |-> <<>>],
                 [kind |-> "object", items |-> <<>>], FileOf(<<>>)}
    /\ now = 1
    /\ last = NoCmd
    /\ prevDone = 0
    /\ Idle

SpecStore == InitStore /\ [][NextImport]_vars

(***************************************************************************)
(* Listing.  The store is any collection of tasks with valid priorities    *)
(* and due dates; one list command is run on it and its rows are kept in   *)
(* listed.                                                                 *)
(***************************************************************************)
ListTasks ==
    {[id |-> IdFrom(<<"a", "a">>),
      title |-> IF c THEN <<"a">> ELSE <<"A", "b">>,
      priority |-> p, due |-> d, completed |-> c,
      created_at |-> IF c THEN 1 ELSE 2,
      completed_at |-> IF c THEN Some(1) ELSE None] :
        p \in PRIORITIES,
        d \in {None, Some(<<"2", "0", "2", "3", "-", "1", "2", "-", "3", "1">>),
               Some(<<"2", "0", "2", "4", "-", "0", "2", "-", "0", "1">>)},
        c \in BOOLEAN}

ListArgs ==
    [show : {"all", "active", "completed"}, query : {EmptyStr, <<"B">>},
     sort : {"created", "priority", "due"}, reverse : BOOLEAN, overdue : BOOLEAN]

InitList ==
    /\ file \in {FileOf(s) : s \in UNION {[1..n -> ListTasks] : n \in 0..MaxListLen}}
    /\ now = 1
    /\ last = NoCmd
    /\ prevDone = 0
    /\ Idle

CmdList ==
    \E a \in ListArgs :
        /\ listed = NoList
        /\ LET r == cmd_list(file, a, Today)
           IN listed' = [sort |-> a.sort, reverse |-> a.reverse,
                         err |-> r.err, items |-> r.items]
        /\ UNCHANGED <<file, now, last, prevDone, pc, mem, order, overlap>>

NextList == CmdList

SpecList == InitList /\ [][NextList]_vars

(***************************************************************************)
(* Two invocations of add at the same time on one store.  Each loads       *)
(* (line 70), then validates, appends and saves (lines 71-88); nothing     *)
(* orders one invocation's steps with respect to the other's.  mem[p] is   *)
(* what p loaded, order lists the savers with the task each added, and     *)
(* overlap is set when the second load happens before the first save.      *)
(***************************************************************************)
RaceArgs(p) ==
    [title : {<< IF p = 1 THEN <<"a">> ELSE <<"b">> >>},
     priority : {sHigh, sUrgent},
     due : {None, Some(sToday)}]

RaceLoad(p) ==
    /\ pc[p] = "start"
    /\ load(file).err = ""
    /\ pc' = [pc EXCEPT ![p] = "loaded"]
    /\ mem' = [mem EXCEPT ![p] = load(file).items]
    /\ overlap' = (overlap \/ \E q \in Procs \ {p} : pc[q] = "loaded")
    /\ UNCHANGED <<file, now, last, prevDone, listed, order>>

RaceAdd(p) ==
    /\ pc[p] = "loaded"
    /\ \E a \in RaceArgs(p), id \in ShortIds, ts \in now..MaxClock :
        LET r == add_outcome(file, mem[p], a, id, ts, Today) IN
        /\ file' = r.file
        /\ now' = ts
        /\ pc' = [pc EXCEPT ![p] = IF r.err = "" THEN "saved" ELSE "failed"]
        /\ order' = IF r.err = ""
                    THEN Append(order, [proc |-> p,
                                        task |-> r.file.items[Len(r.file.items)]])
                    ELSE order
    /\ UNCHANGED <<last, prevDone, listed, mem, overlap>>

NextRace == \E p \in Procs : RaceLoad(p) \/ RaceAdd(p)

SpecRace == Init /\ [][NextRace]_vars

(***************************************************************************)
(* Properties.                                                             *)
(***************************************************************************)
StoreItems == load(file).items

HasDue(t) == t.due # None /\ t.due[1] # EmptyStr

\* C1: under Spec (add, edit and the other local commands, no import file
\* accepted), every task in the store has a non-empty title.
C1_TitleNeverEmpty ==
    \A i \in 1..Len(StoreItems) : StoreItems[i].title # EmptyStr

\* C2: no two tasks in the store have the same id.
C2_IdsUnique ==
    \A i, j \in 1..Len(StoreItems) : i # j => StoreItems[i].id # StoreItems[j].id

\* C3: under Spec (no import file accepted), completed_at is non-null if and
\* only if completed is true, for every task in the store.
C3_CompletedAtIffCompleted ==
    \A i \in 1..Len(StoreItems) :
        (StoreItems[i].completed_at # None) <=> StoreItems[i].completed

\* C3 witness: a done has just completed one of two tasks; the other is open.
C3_Witness ==
    /\ last.cmd = "done" /\ last.err = ""
    /\ Len(StoreItems) = 2
    /\ \E i, j \in 1..2 :
        /\ StoreItems[i].completed /\ StoreItems[i].completed_at # None
        /\ ~StoreItems[j].completed /\ StoreItems[j].completed_at = None

\* C4: an invocation that ends in an error leaves the store file exactly as
\* it was.
C4_ErrorLeavesStore == [][last'.err # "" => file' = file]_vars

\* C4 witness: an edit given a new title and an invalid priority or due date
\* has just failed, and the task it resolved to still has its old title.
C4_Witness ==
    /\ last.cmd = "edit" /\ last.err = "ValidationError" /\ last.idx # 0
    /\ StoreItems[last.idx].title = <<"a">>

\* C5: no command saves over a store file that exists and does not hold a
\* JSON array, be it unparseable or valid JSON of another type.
C5_NonArrayStoreIsKept ==
    [][file.kind \in {"garbage", "object"} => file' = file]_vars

\* C6: when both invocations loaded before either saved and both have saved,
\* neither reported an error, the store is what the later saver loaded plus
\* the later saver's task, and the first saver's task is not in it.
C6_LaterSaveWins ==
    (overlap /\ Len(order) = 2) =>
        /\ \A p \in Procs : pc[p] = "saved"
        /\ file.items = Append(mem[order[2].proc], order[2].task)
        /\ \A i \in 1..Len(file.items) : file.items[i] # order[1].task

\* C6 witness: both loaded the empty store, both saved, one task is left.
C6_Witness ==
    /\ overlap /\ Len(order) = 2
    /\ Len(file.items) = 1
    /\ order[1].task.title # order[2].task.title

\* C7: the rows of a list sorted by priority and not reversed have every
\* high task before every normal one and every normal one before every low
\* one; among equal priorities an earlier due date comes before a later one
\* and a task without due date comes after every task that has one.
C7_PrioritySortOrder ==
    (listed.sort = "priority" /\ ~listed.reverse /\ listed.err = "") =>
        \A i, j \in 1..Len(listed.items) :
            i < j =>
                LET a == listed.items[i]
                    b == listed.items[j]
                IN /\ pri_rank(a.priority) <= pri_rank(b.priority)
                   /\ (a.priority = b.priority /\ HasDue(a) /\ HasDue(b)) =>
                          ~DateLess(FromIso(b.due[1]), FromIso(a.due[1]))
                   /\ (a.priority = b.priority /\ HasDue(b)) => HasDue(a)

\* C7 witness: two tasks of one priority are listed in the opposite of their
\* order in the store, the one with the due date before the one without.
C7_Witness ==
    /\ listed.sort = "priority" /\ ~listed.reverse /\ listed.err = ""
    /\ Len(listed.items) = 2 /\ Len(file.items) = 2
    /\ listed.items[1].priority = listed.items[2].priority
    /\ HasDue(listed.items[1]) /\ ~HasDue(listed.items[2])
    /\ ~HasDue(file.items[1]) /\ HasDue(file.items[2])

\* C8: the due field of every task in the store is null or a valid
\* YYYY-MM-DD calendar date.
C8_DueIsValidDate ==
    \A i \in 1..Len(StoreItems) :
        \/ StoreItems[i].due = None
        \/ /\ FromIso(StoreItems[i].due[1]) # <<>>
           /\ IsoFormat(FromIso(StoreItems[i].due[1])) = StoreItems[i].due[1]

\* C9: a done directly after a done on the same task leaves it completed
\* with a completed_at not earlier than before; an undo directly after a
\* done leaves it open with completed_at null; every other field of the
\* task and every other task are unchanged.
C9_DoneTwiceUndoAfterDone ==
    [][(last'.err = "" /\ prevDone' # 0 /\ prevDone' = last'.idx) =>
        LET i == last'.idx
            t == file.items[i]
            u == file'.items[i]
        IN /\ Len(file'.items) = Len(file.items)
           /\ \A k \in 1..Len(file.items) : k # i => file'.items[k] = file.items[k]
           /\ u = [t EXCEPT !.completed = u.completed, !.completed_at = u.completed_at]
           /\ last'.cmd = "done" =>
                  /\ u.completed /\ u.completed_at # None
                  /\ u.completed_at[1] >= t.completed_at[1]
           /\ last'.cmd = "undo" => ~u.completed /\ u.completed_at = None]_vars

\* C9 witness: the second of two successive done commands on one of two
\* tasks has ended, later than the task was created.
C9_Witness ==
    /\ last.cmd = "done" /\ last.err = "" /\ prevDone # 0 /\ prevDone = last.idx
    /\ Len(StoreItems) = 2
    /\ StoreItems[last.idx].completed_at[1] > StoreItems[last.idx].created_at

\* C10: an edit given --due without a value, and no --clear-due, leaves the
\* due date of the task it resolved to as it was.
C10_OmittedDueKeepsDue ==
    [][(last'.cmd = "edit" /\ last'.err = "" /\ last'.dueOmitted) =>
        file'.items[last'.idx].due = file.items[last'.idx].due]_vars

====
